---- MODULE Spec2Model ----
(***************************************************************************)
(* A model of two components of the courseware code base:                  *)
(*                                                                         *)
(*   - the background task layer of lms/djangoapps/courseware/tasks.py,    *)
(*     which visits the StudentModule rows of one problem and applies an   *)
(*     update function (rescore, reset attempts, delete state) to each,    *)
(*     keeping a CourseTaskLog entry up to date  (specification Spec);     *)
(*                                                                         *)
(*   - the rubric parser of xmodule/combined_open_ended_rubric.py          *)
(*     (specification RubricSpec).                                         *)
(*                                                                         *)
(* The two components do not interact; each specification leaves the other *)
(* component's variables untouched.                                        *)
(***************************************************************************)
EXTENDS Integers, Sequences, FiniteSets, TLC

VARIABLES
    \* ---- courseware/tasks.py ----
    pc,                 \* position of the running task inside _update_problem_module_state
    task_input,         \* the arguments of the task: update_fcn, student identifier, entry_id found or not
    entry,              \* the in-memory CourseTaskLog object (tasks.py:204)
    course_task_log,    \* the persisted CourseTaskLog row
    student_modules,    \* the persisted StudentModule rows, by primary key
    initial_modules,    \* the StudentModule rows as they were when the task started
    modules_to_update,  \* the rows selected by the query, in iteration order (pks)
    num_attempted, num_updated, num_total,
    task_progress,      \* the local task_progress / the value of get_task_progress()
    progress_sink,      \* every meta handed to current_task.update_state, in order
    visited,            \* the calls of update_fcn, in order: the row's pk, what the world
                        \* handed to the call, and how the call ended
    events,             \* the task_track() calls, in order
    clock,              \* number of time() calls made so far
    start_time,
    exc,                \* the exception travelling up to the except clause
    outcome,            \* how _update_problem_module_state ended: returned value or raised exception
    \* ---- xmodule/combined_open_ended_rubric.py ----
    rubric_xml,         \* the rubric document given to the parser
    has_score,          \* CombinedOpenEndedRubric.has_score
    calls,              \* the calls made on this parser instance, in order
    result              \* what the last call returned or raised

taskVars == <<pc, task_input, entry, course_task_log, student_modules, initial_modules,
              modules_to_update, num_attempted, num_updated, num_total, task_progress,
              progress_sink, visited, events, clock, start_time, exc, outcome>>
rubricVars == <<rubric_xml, has_score, calls, result>>
vars == <<taskVars, rubricVars>>

(***************************************************************************)
(* Bounds of the model.                                                    *)
(***************************************************************************)
MaxModules == 3
MaxAttempts == 2
MaxCategories == 2
MaxOptions == 2
MaxScoreArg == 1

(***************************************************************************)
(* xmodule/combined_open_ended_rubric.py                                   *)
(***************************************************************************)

\* ---- the rubric document ----

\* Text is a tuple of characters.  element.get("points") of an element
\* without the attribute is None.
AttrNone == <<"None">>
Element(tag, text, points) == [tag |-> tag, text |-> text, points |-> points]
Description == Element("description", <<"d">>, AttrNone)
Score(text) == Element("score", text, AttrNone)
Option(points) == Element("option", <<"o">>, points)
Comment == Element("comment", << >>, AttrNone)

\* The children a <category> can start with, and the children that follow.
CategoryHeads == {<<Description>>, <<Description, Score(<<"1">>)>>}
PointsAttrs == {AttrNone, <<"0">>, <<"1">>, <<"-", "1">>, <<"x">>}
OptionKinds == {Option(p) : p \in PointsAttrs} \cup {Comment}

Category(children) == [tag |-> "category", children |-> children]
Stray == [tag |-> "note", children |-> << >>]
Undescribed == Category(<<Comment, Score(<<"1">>)>>)

SeqsOfLen(S, n) == [1..n -> S]

\* The children after the head, each <option> with a text of its own: the
\* letter o and its place among them.
Numbered(children) ==
    [i \in 1..Len(children) |->
        IF children[i].tag = "option"
        THEN [children[i] EXCEPT !.text = <<"o", ToString(i)>>]
        ELSE children[i]]

\* The <category> elements with exactly n children after the head; one of
\* those without any starts with something else than a description.
Categories(n) ==
    {Category(h \o Numbered(o)) : h \in CategoryHeads, o \in SeqsOfLen(OptionKinds, n)}
        \cup (IF n = 0 THEN {Undescribed} ELSE {})

\* The rubric documents of at most c top-level children with at most n
\* children after the heads in all.
RECURSIVE Rubrics(_, _)
Rubrics(c, n) ==
    IF c = 0 THEN {<< >>}
    ELSE {<< >>}
            \cup {<<Stray>> \o rest : rest \in Rubrics(c - 1, n)}
            \cup UNION {{<<cat>> \o rest : cat \in Categories(k), rest \in Rubrics(c - 1, n - k)} :
                          k \in 0..n}

\* ---- int() ----

DigitChars == {"0", "1", "2", "3", "4", "5", "6", "7", "8", "9"}
DigitValue(c) ==
    CASE c = "0" -> 0 [] c = "1" -> 1 [] c = "2" -> 2 [] c = "3" -> 3 [] c = "4" -> 4
      [] c = "5" -> 5 [] c = "6" -> 6 [] c = "7" -> 7 [] c = "8" -> 8 [] c = "9" -> 9

RECURSIVE DigitsValue(_)
DigitsValue(s) ==
    IF s = << >> THEN 0
    ELSE 10 * DigitsValue(SubSeq(s, 1, Len(s) - 1)) + DigitValue(s[Len(s)])

Signed(s) == s # << >> /\ s[1] \in {"-", "+"}
Unsigned(s) == IF Signed(s) THEN Tail(s) ELSE s

\* int(s) raises ValueError unless s is an optional sign and decimal digits.
IsInt(s) ==
    /\ Unsigned(s) # << >>
    /\ \A i \in 1..Len(Unsigned(s)) : Unsigned(s)[i] \in DigitChars
int(s) ==
    IF Signed(s) /\ s[1] = "-" THEN 0 - DigitsValue(Unsigned(s)) ELSE DigitsValue(Unsigned(s))

\* ---- results of the parser's methods ----

RubricParsingError == "RubricParsingError"

\* A call returns a value or raises; either way it leaves has_score behind.
Ok(value, hs) == [kind |-> "ok", value |-> value, error |-> "", has_score |-> hs]
Err(error, hs) == [kind |-> "error", value |-> << >>, error |-> error, has_score |-> hs]

\* ---- extract_category ----

\* sorted(options, key=lambda option: option['points']): a stable sort.
RECURSIVE Insert(_, _)
Insert(sorted_options, option) ==
    IF sorted_options = << >> THEN <<option>>
    ELSE IF option.points < sorted_options[Len(sorted_options)].points
         THEN Append(Insert(SubSeq(sorted_options, 1, Len(sorted_options) - 1), option),
                     sorted_options[Len(sorted_options)])
         ELSE Append(sorted_options, option)

\* sorted(..., reverse=True): the options from the highest points down.
RECURSIVE sorted_descending(_)
sorted_descending(options) ==
    IF options = << >> THEN << >>
    ELSE LET m == CHOOSE i \in 1..Len(options) :
                    \A j \in 1..Len(options) : options[j].points <= options[i].points
         IN  <<options[m]>> \o sorted_descending(SubSeq(options, 1, m - 1)
                                                   \o SubSeq(options, m + 1, Len(options)))

RECURSIVE sorted(_)
sorted(options) ==
    IF options = << >> THEN << >>
    ELSE Insert(sorted(SubSeq(options, 1, Len(options) - 1)), options[Len(options)])

\* combined_open_ended_rubric.py:165-170: the scan of adjacent options; TRUE
\* when it raises.
RECURSIVE DuplicateScan(_, _)
DuplicateScan(prev, options) ==
    IF options = << >> THEN FALSE
    ELSE IF prev = options[1].points THEN TRUE
         ELSE DuplicateScan(options[1].points, Tail(options))

\* A validation that only looks for an empty list of options.
validate_options_not_empty(options) == Len(options) # 0

\* combined_open_ended_rubric.py:156-170; TRUE when the options pass.
validate_options(options) ==
    IF Len(options) = 0 THEN FALSE
    ELSE IF Len(options) = 1 THEN TRUE
         ELSE ~DuplicateScan(options[1].points, Tail(options))

\* A parser that reports the missing points attribute as it reports every
\* other defect of the document.
MissingPointsError_parsing == "RubricParsingError"

\* combined_open_ended_rubric.py:143: raise Exception(...), not a
\* RubricParsingError.
MissingPointsError == "Exception"

\* An option selected whenever its category has a score.
selected_any_score(score, points) == score # << >>

\* An option compared with a missing score as with a score of 0.
selected_none_is_zero(score, points) == points = (IF score = << >> THEN 0 ELSE score[1])

\* combined_open_ended_rubric.py:145: selected = score == points, where score
\* is None or an integer.
selected(score, points) == score = <<points>>

\* if pointstr:
Truthy(pointstr) == pointstr # AttrNone /\ pointstr # << >>

\* combined_open_ended_rubric.py:122-147: the loop over optionsxml, from the
\* state (cur_points, autonumbering, options) it has reached.
RECURSIVE ParseOptions(_, _, _, _, _)
ParseOptions(optionsxml, score, cur_points, autonumbering, options) ==
    IF optionsxml = << >> THEN [error |-> "", options |-> options]
    ELSE
        LET option == optionsxml[1]
            pointstr == option.points
        IN  IF option.tag # "option"
            THEN [error |-> RubricParsingError, options |-> options]
            ELSE IF Truthy(pointstr)
            THEN IF ~IsInt(pointstr)
                 THEN [error |-> RubricParsingError, options |-> options]
                 ELSE ParseOptions(Tail(optionsxml), score, cur_points, FALSE,
                                   Append(options, [text |-> option.text,
                                                    points |-> int(pointstr),
                                                    selected |-> selected(score, int(pointstr))]))
            ELSE IF autonumbering
            THEN ParseOptions(Tail(optionsxml), score, cur_points + 1, TRUE,
                              Append(options, [text |-> option.text,
                                               points |-> cur_points,
                                               selected |-> selected(score, cur_points)]))
            ELSE [error |-> MissingPointsError, options |-> options]

\* combined_open_ended_rubric.py:149-153: the options parsed, sorted and
\* validated, and the category returned.
FinishCategory(description, score, error, options, hs) ==
    IF error # "" THEN Err(error, hs)
    ELSE IF ~validate_options(options) THEN Err(RubricParsingError, hs)
    ELSE Ok([description |-> description, options |-> options, score |-> score], hs)

\* combined_open_ended_rubric.py:116-153: the category once its score is known.
ParseCategory(descriptionxml, optionsxml, score, hs, parsed) ==
    IF descriptionxml.tag # "description" THEN Err(RubricParsingError, hs)
    ELSE FinishCategory(descriptionxml.text, score, parsed.error,
                        IF parsed.error = "" THEN sorted(parsed.options) ELSE << >>, hs)

\* combined_open_ended_rubric.py:102-113: the score of a category whose
\* second child is scorexml.  The score is << >> for None and <<n>> for the
\* integer n.
ScoredCategory(descriptionxml, scorexml, optionsxml, score, hs) ==
    IF ~IsInt(scorexml.text)
    THEN Err(IF scorexml.text = << >> THEN "TypeError" ELSE "ValueError", hs)
    ELSE ParseCategory(descriptionxml, optionsxml, score, TRUE,
                       ParseOptions(optionsxml, score, 0, TRUE, << >>))

\* combined_open_ended_rubric.py:93-153.  category is the tuple of the
\* element's children; hs is self.has_score when the call starts.
extract_category(category, hs) ==
    IF Len(category) < 2 THEN Err("IndexError", hs)
    ELSE IF category[2].tag = "score"
    THEN ScoredCategory(category[1], category[2], SubSeq(category, 3, Len(category)),
                        IF IsInt(category[2].text) THEN <<int(category[2].text)>> ELSE << >>,
                        hs)
    ELSE IF hs THEN Err(RubricParsingError, hs)
    ELSE ParseCategory(category[1], SubSeq(category, 2, Len(category)), << >>, hs,
                       ParseOptions(SubSeq(category, 2, Len(category)), << >>, 0, TRUE, << >>))

\* combined_open_ended_rubric.py:70-90: the loop over the children of the
\* root, from the categories collected so far; c is what extract_category
\* gave for the first of them.
RECURSIVE ExtractFrom(_, _, _)
ExtractNext(element, categories, c) ==
    IF c.kind = "error" THEN c
    ELSE ExtractFrom(Tail(element), Append(categories, c.value), c.has_score)

ExtractFrom(element, categories, hs) ==
    IF element = << >> THEN Ok(categories, hs)
    ELSE IF element[1].tag # "category" THEN Err(RubricParsingError, hs)
    ELSE ExtractNext(element, categories, extract_category(element[1].children, hs))

extract_categories(element, hs) == ExtractFrom(element, << >>, hs)

\* ---- render_rubric and check_if_rubric_is_parseable ----

RECURSIVE max(_)
max(xs) ==
    IF Len(xs) = 1 THEN xs[1]
    ELSE IF xs[1] >= max(Tail(xs)) THEN xs[1] ELSE max(Tail(xs))

\* combined_open_ended_rubric.py:32-45: the rest of render_rubric once the
\* categories are extracted.
RenderCategories(rubric_categories, hs, template_ok) ==
    IF rubric_categories = << >> \/ ~template_ok
    THEN Err(RubricParsingError, hs)
    ELSE Ok([success |-> TRUE,
             html |-> [categories |-> rubric_categories,
                       has_score |-> hs,
                       max_score |-> max([i \in 1..Len(rubric_categories) |->
                           rubric_categories[i].options[Len(rubric_categories[i].options)].points])],
             rubric_scores |-> [i \in 1..Len(rubric_categories) |-> rubric_categories[i].score]],
            hs)

RenderExtracted(extracted, template_ok) ==
    IF extracted.kind = "error" THEN Err(RubricParsingError, extracted.has_score)
    ELSE RenderCategories(extracted.value, extracted.has_score, template_ok)

\* combined_open_ended_rubric.py:19-45.  template_ok: whether
\* system.render_template returns.  Whatever is raised inside the try (the
\* errors of extract_categories, max() of no category, the template) is
\* replaced by a RubricParsingError.
render_rubric(rubric_xml_, hs, template_ok) ==
    RenderExtracted(extract_categories(rubric_xml_, hs), template_ok)

\* combined_open_ended_rubric.py:55-62: the loop over the categories, from
\* the total reached; the error it raises, or the total.
RECURSIVE CountPoints(_, _, _)
CountPoints(rubric_categories, total, max_score_allowed) ==
    IF rubric_categories = << >> THEN [error |-> "", total |-> total]
    ELSE IF Len(rubric_categories[1].options) > max_score_allowed + 1
         THEN [error |-> RubricParsingError,
               total |-> total + Len(rubric_categories[1].options) - 1]
         ELSE CountPoints(Tail(rubric_categories),
                          total + Len(rubric_categories[1].options) - 1,
                          max_score_allowed)

\* combined_open_ended_rubric.py:64-68
CheckTotal(counted, max_score, hs) ==
    IF counted.error # "" THEN Err(counted.error, hs)
    ELSE IF counted.total # max_score THEN Err(RubricParsingError, hs)
    ELSE Ok(<< >>, hs)

\* combined_open_ended_rubric.py:54-68
CheckExtracted(extracted, max_score_allowed, max_score) ==
    IF extracted.kind = "error" THEN extracted
    ELSE CheckTotal(CountPoints(extracted.value, 0, max_score_allowed), max_score,
                    extracted.has_score)

\* combined_open_ended_rubric.py:48: success, rubric_feedback = <the dict>.
\* Iterating a dict gives its keys, and any number of keys but two raises
\* ValueError.
Unpacks(value, n) == Cardinality(DOMAIN value) = n

\* combined_open_ended_rubric.py:48-68, from the value of render_rubric.
CheckRendered(rendered, rubric_string, max_score_allowed, max_score) ==
    IF rendered.kind = "error" THEN rendered
    ELSE IF ~Unpacks(rendered.value, 2) THEN Err("ValueError", rendered.has_score)
    ELSE CheckExtracted(extract_categories(rubric_string, rendered.has_score),
                        max_score_allowed, max_score)

\* combined_open_ended_rubric.py:47-68
check_if_rubric_is_parseable(rubric_string, max_score_allowed, max_score, hs, template_ok) ==
    CheckRendered(render_rubric(rubric_string, hs, template_ok), rubric_string,
                  max_score_allowed, max_score)

\* ---- calls on one parser instance ----

Call(method, args) == [method |-> method, args |-> args, has_score |-> has_score]
NoArgs == [template_ok |-> TRUE, max_score_allowed |-> 0, max_score |-> 0]

\* parser.extract_categories(rubric_xml), on a fresh parser or again on the
\* same one.
ExtractCategories ==
    /\ calls = << >> \/ (Len(calls) = 1 /\ calls[1].method = "extract_categories")
    /\ result' = extract_categories(rubric_xml, has_score)
    /\ has_score' = result'.has_score
    /\ calls' = Append(calls, Call("extract_categories", NoArgs))
    /\ UNCHANGED rubric_xml
    /\ UNCHANGED taskVars

\* parser.render_rubric(rubric_xml) on a fresh parser.
RenderRubric ==
    /\ calls = << >>
    /\ \E template_ok \in BOOLEAN :
         /\ result' = render_rubric(rubric_xml, has_score, template_ok)
         /\ calls' = Append(calls, Call("render_rubric", [NoArgs EXCEPT !.template_ok = template_ok]))
    /\ has_score' = result'.has_score
    /\ UNCHANGED rubric_xml
    /\ UNCHANGED taskVars

\* parser.check_if_rubric_is_parseable(rubric_xml, location, max_score_allowed,
\* max_score) on a fresh parser.
CheckIfRubricIsParseable ==
    /\ calls = << >>
    /\ \E max_score_allowed \in 0..MaxScoreArg, max_score \in 0..MaxScoreArg,
          template_ok \in BOOLEAN :
         /\ result' = check_if_rubric_is_parseable(rubric_xml, max_score_allowed, max_score,
                                                   has_score, template_ok)
         /\ calls' = Append(calls, Call("check_if_rubric_is_parseable",
                                        [template_ok |-> template_ok,
                                         max_score_allowed |-> max_score_allowed,
                                         max_score |-> max_score]))
    /\ has_score' = result'.has_score
    /\ UNCHANGED rubric_xml
    /\ UNCHANGED taskVars

(***************************************************************************)
(* courseware/tasks.py                                                     *)
(***************************************************************************)
PROGRESS == "PROGRESS"
SUCCESS == "SUCCESS"
FAILURE == "FAILURE"
PENDING == "PENDING"
UNKNOWN_TASK_ID == "unknown-task_id"
TracebackLimit == 700

\* Python's None, where the other values are tuples or records.
None == << >>
NoneRecord == [kind |-> "None"]

\* current_task.request.id
TaskId == "task-1"

\* The course and problem the task is started on, and the others in the store.
CourseId == "course-1"
ProblemUrl == "problem-1"
Locations == {<<CourseId, ProblemUrl>>, <<"course-2", ProblemUrl>>, <<CourseId, "problem-2">>}

ModuleIds == 1..MaxModules

\* auth User rows: one student per StudentModule row.
Username(u) == <<"user", ToString(u)>>
Email(u) == <<"user", ToString(u), "@", "example.com">>
Users == {[id |-> u, username |-> Username(u), email |-> Email(u)] : u \in ModuleIds}

\* The serialized problem state of a row, a JSON document: not attempted,
\* attempted once or as often as can be, or without an attempt count.
TargetStates ==
    {[done |-> FALSE, attempts |-> 0]}
        \cup {[done |-> TRUE, attempts |-> a] : a \in {1, MaxAttempts}}
        \cup {[done |-> TRUE]}
ForeignStates == {[done |-> TRUE, attempts |-> MaxAttempts]}

StudentModule(id, loc, state) ==
    [exists |-> TRUE, course_id |-> loc[1], module_state_key |-> loc[2],
     student_id |-> id, state |-> state]

\* What a row of the store can be: a row of the problem the task runs on, in any
\* state, or a row of another course or another problem.
RowTemplates ==
    {[loc |-> <<CourseId, ProblemUrl>>, state |-> s] : s \in TargetStates}
        \cup {[loc |-> l, state |-> s] :
                l \in Locations \ {<<CourseId, ProblemUrl>>}, s \in ForeignStates}

\* The tasks of the module, by the update function each passes on.
UpdateFcns == {"rescore", "reset", "delete"}

\* task_input['student'] of rescore_problem; the other two tasks pass None.
StudentIdents == {None, Username(1), Email(1), <<"ghost">>}

TaskInputs ==
    {[update_fcn |-> "rescore", student_ident |-> s, entry_found |-> e] :
        s \in StudentIdents, e \in BOOLEAN}
        \cup {[update_fcn |-> f, student_ident |-> None, entry_found |-> e] :
                f \in {"reset", "delete"}, e \in BOOLEAN}

\* action_name of each task (tasks.py:353, 404, 441).
ActionName(update_fcn) ==
    CASE update_fcn = "rescore" -> "rescored"
      [] update_fcn = "reset" -> "reset"
      [] update_fcn = "delete" -> "deleted"

Exception(type, message) == [type |-> type, message |-> message]

\* ---- the ORM queries of _perform_module_state_update ----

\* "@" in student_identifier
HasAt(s) == \E i \in 1..Len(s) : s[i] = "@"

\* A lookup that takes any user when the identifier matches none.
UsersMatching_lenient(student_identifier) ==
    IF \E u \in Users : student_identifier \in {u.email, u.username}
    THEN {u \in Users : student_identifier \in {u.email, u.username}}
    ELSE Users

\* User.objects.get(email=...) / User.objects.get(username=...): the set of
\* matching users; get() raises DoesNotExist when it is empty.
UsersMatching(student_identifier) ==
    IF HasAt(student_identifier)
    THEN {u \in Users : u.email = student_identifier}
    ELSE {u \in Users : u.username = student_identifier}

\* A filter that lets every row through.
filter_module_state_for_all(rows, modules) == rows

\* tasks.py:332-334 and the lambda of tasks.py:355: state__contains='"done": true'
filter_module_state_for_done(rows, modules) ==
    {m \in rows : "done" \in DOMAIN modules[m].state /\ modules[m].state.done}

\* filter_fcn of each task: the done filter for rescoring, None for the others.
ApplyFilterFcn(update_fcn, rows, modules) ==
    IF update_fcn = "rescore" THEN filter_module_state_for_done(rows, modules) ELSE rows

\* A query that selects by problem only, in whatever course.
ModulesQuery_any_course(modules, update_fcn, student) ==
    LET all == {m \in DOMAIN modules :
                    /\ modules[m].exists
                    /\ modules[m].module_state_key = ProblemUrl}
        narrowed == IF student = NoneRecord THEN all
                    ELSE {m \in all : modules[m].student_id = student.id}
    IN  ApplyFilterFcn(update_fcn, narrowed, modules)

\* tasks.py:103-121: the query, as the set of primary keys it selects.
ModulesQuery(modules, update_fcn, student) ==
    LET all == {m \in DOMAIN modules :
                    /\ modules[m].exists
                    /\ modules[m].course_id = CourseId
                    /\ modules[m].module_state_key = ProblemUrl}
        narrowed == IF student = NoneRecord THEN all
                    ELSE {m \in all : modules[m].student_id = student.id}
    IN  ApplyFilterFcn(update_fcn, narrowed, modules)

\* The rows of a query in iteration order (by primary key).
RECURSIVE InOrder(_)
InOrder(S) ==
    IF S = {} THEN << >>
    ELSE LET m == CHOOSE x \in S : \A y \in S : x <= y
         IN  <<m>> \o InOrder(S \ {m})

\* A progress report with the two counters in each other's place.
get_task_progress_swapped(action_name, attempted, updated, total, current_time, started) ==
    [action_name |-> action_name,
     attempted |-> updated,
     updated |-> attempted,
     total |-> total,
     duration_ms |-> (current_time - started) * 1000]

\* tasks.py:128-137
get_task_progress(action_name, attempted, updated, total, current_time, started) ==
    [action_name |-> action_name,
     attempted |-> attempted,
     updated |-> updated,
     total |-> total,
     duration_ms |-> (current_time - started) * 1000]

\* json.dumps of a dict: the document, marked as serialized text.
json_dumps(d) == [kind |-> "json", doc |-> d]

\* tasks.py:242-244
get_task_id_from_xmodule_args(xmodule_instance_args) ==
    IF xmodule_instance_args # NoneRecord /\ "task_id" \in DOMAIN xmodule_instance_args
    THEN xmodule_instance_args.task_id
    ELSE UNKNOWN_TASK_ID

\* xmodule_instance_args after tasks.py:209-210
XmoduleInstanceArgs == [kind |-> "dict", task_id |-> TaskId]

\* ---- the update functions ----

\* What the world hands to one call of update_fcn: the module instance that
\* get_module_for_descriptor_internal builds (rescoring), and whether the
\* database accepts the write (reset, delete).
RescoreResults ==
    {[msg |-> "unexpected"], [success |-> "correct"], [success |-> "incorrect"],
     [success |-> "error"]}
Instances ==
    {NoneRecord, [kind |-> "module", rescore_problem |-> FALSE]}
        \cup {[kind |-> "module", rescore_problem |-> TRUE, result |-> r] : r \in RescoreResults}
Worlds(update_fcn) ==
    IF update_fcn = "rescore"
    THEN {[instance |-> i, db_ok |-> TRUE] : i \in Instances}
    ELSE {[instance |-> NoneRecord, db_ok |-> b] : b \in BOOLEAN}

Returned(value, modules, evs) ==
    [raised |-> FALSE, value |-> value, exc |-> NoneRecord, modules |-> modules, events |-> evs]
Raised(e, modules, evs) ==
    [raised |-> TRUE, value |-> FALSE, exc |-> e, modules |-> modules, events |-> evs]

\* A rescoring that takes any result with a success value as a success.
rescore_problem_any_success(modules, evs, m, world) ==
    LET instance == world.instance IN
    IF instance = NoneRecord
    THEN Raised(Exception("UpdateProblemModuleStateError", "No module for student--access denied?"),
                modules, evs)
    ELSE IF ~instance.rescore_problem
    THEN Raised(Exception("UpdateProblemModuleStateError",
                          "Specified problem does not support rescoring."),
                modules, evs)
    ELSE IF "success" \notin DOMAIN instance.result
    THEN Returned(FALSE, modules, evs)
    ELSE Returned(TRUE, modules, evs)

\* tasks.py:282-329
rescore_problem_module_state(modules, evs, m, world) ==
    LET instance == world.instance IN
    IF instance = NoneRecord
    THEN Raised(Exception("UpdateProblemModuleStateError", "No module for student--access denied?"),
                modules, evs)
    ELSE IF ~instance.rescore_problem
    THEN Raised(Exception("UpdateProblemModuleStateError",
                          "Specified problem does not support rescoring."),
                modules, evs)
    ELSE IF "success" \notin DOMAIN instance.result
    THEN Returned(FALSE, modules, evs)
    ELSE IF instance.result.success \notin {"correct", "incorrect"}
    THEN Returned(FALSE, modules, evs)
    ELSE Returned(TRUE, modules, evs)

\* A reset that writes and reports whatever the attempt count is.
reset_problem_attempts_unconditional(modules, evs, m, world) ==
    LET problem_state == modules[m].state IN
    IF "attempts" \in DOMAIN problem_state
    THEN IF ~world.db_ok
         THEN Raised(Exception("DatabaseError", "save failed"), modules, evs)
         ELSE Returned(TRUE,
                       [modules EXCEPT ![m].state = [problem_state EXCEPT !.attempts = 0]],
                       Append(evs, [event_type |-> "problem_reset_attempts",
                                    student |-> Username(modules[m].student_id),
                                    task_id |-> get_task_id_from_xmodule_args(XmoduleInstanceArgs),
                                    event |-> [old_attempts |-> problem_state.attempts,
                                               new_attempts |-> 0]]))
    ELSE Returned(TRUE, modules, evs)

\* tasks.py:365-388
reset_problem_attempts_module_state(modules, evs, m, world) ==
    LET problem_state == modules[m].state IN
    IF "attempts" \in DOMAIN problem_state /\ problem_state.attempts > 0
    THEN IF ~world.db_ok
         THEN Raised(Exception("DatabaseError", "save failed"), modules, evs)
         ELSE Returned(TRUE,
                       [modules EXCEPT ![m].state = [problem_state EXCEPT !.attempts = 0]],
                       Append(evs, [event_type |-> "problem_reset_attempts",
                                    student |-> Username(modules[m].student_id),
                                    task_id |-> get_task_id_from_xmodule_args(XmoduleInstanceArgs),
                                    event |-> [old_attempts |-> problem_state.attempts,
                                               new_attempts |-> 0]]))
    ELSE Returned(TRUE, modules, evs)

\* A delete that spares the rows whose problem is not done.
delete_problem_done_only(modules, evs, m, world) ==
    IF ~world.db_ok
    THEN Raised(Exception("DatabaseError", "delete failed"), modules, evs)
    ELSE Returned(TRUE,
                  IF "done" \in DOMAIN modules[m].state /\ modules[m].state.done
                  THEN [modules EXCEPT ![m].exists = FALSE]
                  ELSE modules,
                  Append(evs, [event_type |-> "problem_delete_state",
                               student |-> Username(modules[m].student_id),
                               task_id |-> get_task_id_from_xmodule_args(XmoduleInstanceArgs),
                               event |-> NoneRecord]))

\* tasks.py:412-425
delete_problem_module_state(modules, evs, m, world) ==
    IF ~world.db_ok
    THEN Raised(Exception("DatabaseError", "delete failed"), modules, evs)
    ELSE Returned(TRUE,
                  [modules EXCEPT ![m].exists = FALSE],
                  Append(evs, [event_type |-> "problem_delete_state",
                               student |-> Username(modules[m].student_id),
                               task_id |-> get_task_id_from_xmodule_args(XmoduleInstanceArgs),
                               event |-> NoneRecord]))

\* update_fcn(module_descriptor, module_to_update, xmodule_instance_args), tasks.py:146
update_fcn(name, modules, evs, m, world) ==
    CASE name = "rescore" -> rescore_problem_module_state(modules, evs, m, world)
      [] name = "reset" -> reset_problem_attempts_module_state(modules, evs, m, world)
      [] name = "delete" -> delete_problem_module_state(modules, evs, m, world)

\* ---- the CourseTaskLog entry ----

\* The entry as created before the task is queued.
NewEntry == [task_id |-> "", task_state |-> PENDING, task_output |-> NoneRecord]

\* A save that does not reach the database.
save_not_committed(e) == course_task_log

\* tasks.py:158-161: entry.save() under autocommit; gives the persisted row.
save_course_task_log_entry(e) == [exists |-> TRUE, row |-> e]

\* An except clause that writes the output but leaves task_state as it was.
FailureEntry_no_state(e, exception, traceback_len) ==
    [e EXCEPT !.task_output =
                  json_dumps([exception |-> exception.type,
                              message |-> exception.message,
                              traceback |-> IF traceback_len > 700 THEN 700 ELSE traceback_len])]

\* A stack trace stored whole.
Truncate_none(n) == n

\* tasks.py:220-227: the entry as the except clause leaves it.  The stack trace
\* is modelled by its length in characters; traceback_string[:700] keeps at
\* most TracebackLimit of them.
Truncate(n) == IF n > TracebackLimit THEN TracebackLimit ELSE n
FailureEntry(e, exception, traceback_len) ==
    [e EXCEPT !.task_output =
                  json_dumps([exception |-> exception.type,
                              message |-> exception.message,
                              traceback |-> Truncate(traceback_len)]),
              !.task_state = FAILURE]

\* A success that records the state but not the progress.
SuccessEntry_no_output(e, progress) == [e EXCEPT !.task_state = SUCCESS]

\* tasks.py:232-233
SuccessEntry(e, progress) ==
    [e EXCEPT !.task_output = json_dumps(progress), !.task_state = SUCCESS]

\* Lengths of the text format_exc() can give.
TracebackLens == {1, TracebackLimit, TracebackLimit + 1}

\* ---- the task, step by step ----

\* tasks.py:198-204: CourseTaskLog.objects.get(pk=entry_id); DoesNotExist is
\* left to the caller.
LoadEntry ==
    /\ pc = "start"
    /\ IF course_task_log.exists
       THEN /\ entry' = course_task_log.row
            /\ pc' = "stamp"
            /\ outcome' = outcome
       ELSE /\ entry' = entry
            /\ pc' = "done"
            /\ outcome' = [kind |-> "raised",
                           value |-> Exception("DoesNotExist", "CourseTaskLog matching query does not exist.")]
    /\ UNCHANGED <<task_input, course_task_log, student_modules, initial_modules,
                   modules_to_update, num_attempted, num_updated, num_total, task_progress,
                   progress_sink, visited, events, clock, start_time, exc>>
    /\ UNCHANGED rubricVars

\* tasks.py:205-210: entry.task_id = task_id, saved at once.
StampEntry ==
    /\ pc = "stamp"
    /\ entry' = [entry EXCEPT !.task_id = TaskId]
    /\ course_task_log' = save_course_task_log_entry(entry')
    /\ pc' = "perform"
    /\ UNCHANGED <<task_input, student_modules, initial_modules,
                   modules_to_update, num_attempted, num_updated, num_total, task_progress,
                   progress_sink, visited, events, clock, start_time, exc, outcome>>
    /\ UNCHANGED rubricVars

\* tasks.py:86-140: _perform_module_state_update up to the loop.  The student
\* lookup raises inside the try block of _update_problem_module_state.
PerformSetup ==
    /\ pc = "perform"
    /\ start_time' = clock
    /\ LET ident == task_input.student_ident
           found == IF ident = None THEN {} ELSE UsersMatching(ident)
       IN  IF ident # None /\ found = {}
           THEN /\ exc' = Exception("DoesNotExist", "User matching query does not exist.")
                /\ pc' = "except"
                /\ clock' = clock + 1
                /\ UNCHANGED <<modules_to_update, num_attempted, num_updated, num_total,
                               task_progress, progress_sink>>
           ELSE LET student == IF ident = None THEN NoneRecord
                               ELSE CHOOSE u \in found : TRUE
                    query == ModulesQuery(student_modules, task_input.update_fcn, student)
                    progress == get_task_progress(ActionName(task_input.update_fcn),
                                                  0, 0, Cardinality(query), clock + 1, clock)
                IN  /\ modules_to_update' = InOrder(query)
                    /\ num_updated' = 0
                    /\ num_attempted' = 0
                    /\ num_total' = Cardinality(query)
                    /\ task_progress' = progress
                    /\ progress_sink' = Append(progress_sink, [state |-> PROGRESS, meta |-> progress])
                    /\ clock' = clock + 2
                    /\ pc' = "loop"
                    /\ exc' = exc
    /\ UNCHANGED <<task_input, entry, course_task_log, student_modules, initial_modules,
                   visited, events, outcome>>
    /\ UNCHANGED rubricVars

\* A loop that counts every visited row as updated.
count_updated_always(value, updated) == updated + 1

\* tasks.py:146-149: num_updated += 1 when update_fcn returns a true value.
count_updated(value, updated) == IF value THEN updated + 1 ELSE updated

\* A loop that logs the exception of update_fcn and goes on with the next row.
after_update_fcn_continue(r) == "loop"

\* tasks.py:141-146: there is no try around update_fcn; an exception leaves the loop.
after_update_fcn(r) == IF r.raised THEN "except" ELSE "loop"

\* Update functions whose writes stay in a transaction that is never committed.
transaction_not_committed(written, committed) == committed

\* @transaction.autocommit on every update function (tasks.py:282, 365, 412):
\* what the function wrote is committed when it returns or raises.
transaction_autocommit(written, committed) == written

\* How one call of update_fcn ended, for the record of visits.
CallOutcome(r) == IF r.raised THEN "raised" ELSE IF r.value THEN "true" ELSE "false"

\* tasks.py:141-153: one turn of the loop.
VisitModule ==
    /\ pc = "loop"
    /\ num_attempted < Len(modules_to_update)
    /\ \E world \in Worlds(task_input.update_fcn) :
         LET m == modules_to_update[num_attempted + 1]
             r == update_fcn(task_input.update_fcn, student_modules, events, m, world)
             updated == count_updated(r.value, num_updated)
             progress == get_task_progress(ActionName(task_input.update_fcn),
                                           num_attempted + 1, updated, num_total,
                                           clock, start_time)
         IN  /\ num_attempted' = num_attempted + 1
             /\ visited' = Append(visited, [pk |-> m, world |-> world, outcome |-> CallOutcome(r)])
             /\ student_modules' = transaction_autocommit(r.modules, student_modules)
             /\ events' = r.events
             /\ pc' = after_update_fcn(r)
             /\ IF r.raised
                THEN /\ exc' = r.exc
                     /\ UNCHANGED <<num_updated, task_progress, progress_sink, clock>>
                ELSE /\ num_updated' = updated
                     /\ task_progress' = progress
                     /\ progress_sink' = Append(progress_sink, [state |-> PROGRESS, meta |-> progress])
                     /\ clock' = clock + 1
                     /\ UNCHANGED exc
    /\ UNCHANGED <<task_input, entry, course_task_log, initial_modules,
                   modules_to_update, num_total, start_time, outcome>>
    /\ UNCHANGED rubricVars

\* tasks.py:155 and 231-239: the loop is over; the entry is written and the
\* progress returned.
Succeed ==
    /\ pc = "loop"
    /\ num_attempted = Len(modules_to_update)
    /\ entry' = SuccessEntry(entry, task_progress)
    /\ course_task_log' = save_course_task_log_entry(entry')
    /\ outcome' = [kind |-> "returned", value |-> task_progress]
    /\ pc' = "done"
    /\ UNCHANGED <<task_input, student_modules, initial_modules,
                   modules_to_update, num_attempted, num_updated, num_total, task_progress,
                   progress_sink, visited, events, clock, start_time, exc>>
    /\ UNCHANGED rubricVars

\* tasks.py:218-229: the except clause; ends with a bare raise.
HandleFailure ==
    /\ pc = "except"
    /\ \E traceback_len \in TracebackLens :
         /\ task_progress' = [exception |-> exc.type, message |-> exc.message,
                              traceback |-> Truncate(traceback_len)]
         /\ entry' = FailureEntry(entry, exc, traceback_len)
    /\ course_task_log' = save_course_task_log_entry(entry')
    /\ outcome' = [kind |-> "raised", value |-> exc]
    /\ pc' = "done"
    /\ UNCHANGED <<task_input, student_modules, initial_modules,
                   modules_to_update, num_attempted, num_updated, num_total,
                   progress_sink, visited, events, clock, start_time, exc>>
    /\ UNCHANGED rubricVars

\* The parser is not used by the task layer.
RubricIdle ==
    /\ rubric_xml = << >>
    /\ has_score = FALSE
    /\ calls = << >>
    /\ result = NoneRecord

\* A worker picks the task up: any store, any task of the module, the entry
\* created by the submitter (or an entry_id that matches no row).
Init ==
    /\ pc = "start"
    /\ task_input \in TaskInputs
    /\ entry = NewEntry
    /\ course_task_log = [exists |-> task_input.entry_found, row |-> NewEntry]
    /\ \E t \in [ModuleIds -> RowTemplates] :
         student_modules = [i \in ModuleIds |-> StudentModule(i, t[i].loc, t[i].state)]
    /\ initial_modules = student_modules
    /\ modules_to_update = << >>
    /\ num_attempted = 0
    /\ num_updated = 0
    /\ num_total = 0
    /\ task_progress = NoneRecord
    /\ progress_sink = << >>
    /\ visited = << >>
    /\ events = << >>
    /\ clock = 0
    /\ start_time = 0
    /\ exc = NoneRecord
    /\ outcome = NoneRecord
    /\ RubricIdle

Next ==
    \/ LoadEntry
    \/ StampEntry
    \/ PerformSetup
    \/ VisitModule
    \/ Succeed
    \/ HandleFailure

Spec == Init /\ [][Next]_vars

\* The worker keeps running the task it picked up.
FairSpec == Spec /\ WF_vars(Next)

\* No task runs while the parser is exercised.
TaskIdle ==
    /\ pc = "idle"
    /\ task_input = NoneRecord
    /\ entry = NewEntry
    /\ course_task_log = [exists |-> FALSE, row |-> NewEntry]
    /\ student_modules = << >>
    /\ initial_modules = << >>
    /\ modules_to_update = << >>
    /\ num_attempted = 0
    /\ num_updated = 0
    /\ num_total = 0
    /\ task_progress = NoneRecord
    /\ progress_sink = << >>
    /\ visited = << >>
    /\ events = << >>
    /\ clock = 0
    /\ start_time = 0
    /\ exc = NoneRecord
    /\ outcome = NoneRecord

\* combined_open_ended_rubric.py:14-17: a fresh parser, and the document it
\* is given.
RubricInit ==
    /\ rubric_xml \in Rubrics(MaxCategories, MaxOptions)
    /\ has_score = FALSE
    /\ calls = << >>
    /\ result = NoneRecord
    /\ TaskIdle

RubricNext ==
    \/ ExtractCategories
    \/ RenderRubric
    \/ CheckIfRubricIsParseable

RubricSpec == RubricInit /\ [][RubricNext]_vars

(***************************************************************************)
(* Properties of the task layer.                                           *)
(***************************************************************************)
Row == course_task_log.row
Candidates == modules_to_update
RaisedAt(k) == k \in 1..Len(visited) /\ visited[k].outcome = "raised"
SomeCallRaised == \E k \in 1..Len(visited) : RaisedAt(k)
FailureRecorded == course_task_log.exists /\ Row.task_state = FAILURE
TrueCalls == {i \in 1..Len(visited) : visited[i].outcome = "true"}
FalseCalls == {i \in 1..Len(visited) : visited[i].outcome = "false"}

\* What the abort on the k-th row leaves behind.
AbortedAt(k) ==
    /\ k = Len(visited)
    /\ num_attempted = k
    /\ \A i \in 1..k : visited[i].pk = Candidates[i]
    /\ pc \in {"except", "done"}
    /\ pc = "done" => FailureRecorded /\ outcome.kind = "raised"

\* C1: when update_fcn raises on the k-th row visited, the attempted counter is
\* k, no row after the k-th is ever visited, and the run ends with the task
\* record in state FAILURE.
C1_AbortOnRaise ==
    /\ [](\A k \in 1..Len(visited) : RaisedAt(k) => AbortedAt(k))
    /\ (SomeCallRaised ~> (pc = "done" /\ FailureRecorded))

C1_Witness ==
    /\ pc = "done"
    /\ Len(Candidates) = 3
    /\ RaisedAt(2)
    /\ FailureRecorded

\* C2: an exception that aborts the update is recorded on the task record as
\* FAILURE with the exception's type name, its message and at most
\* TracebackLimit characters of stack trace, and the same exception is raised
\* again to the caller.
C2_FailureRecorded ==
    (pc = "done" /\ exc # NoneRecord) =>
        /\ FailureRecorded
        /\ Row.task_output.kind = "json"
        /\ DOMAIN Row.task_output.doc = {"exception", "message", "traceback"}
        /\ Row.task_output.doc.exception = exc.type
        /\ Row.task_output.doc.message = exc.message
        /\ Row.task_output.doc.traceback \in 0..TracebackLimit
        /\ outcome = [kind |-> "raised", value |-> exc]

C2_Witness ==
    /\ pc = "done"
    /\ FailureRecorded
    /\ exc.type = "UpdateProblemModuleStateError"
    /\ Row.task_output.doc.traceback = TracebackLimit
    /\ outcome.value = exc

\* C3: when the loop completes without an exception the task record is
\* persisted as SUCCESS with the final progress snapshot as its output, and
\* that snapshot is what the run returns.
C3_SuccessRecorded ==
    (pc = "done" /\ outcome.kind = "returned") =>
        /\ course_task_log.exists
        /\ Row.task_state = SUCCESS
        /\ Row.task_output = json_dumps(outcome.value)
        /\ outcome.value = progress_sink[Len(progress_sink)].meta
        /\ DOMAIN outcome.value = {"action_name", "attempted", "updated", "total", "duration_ms"}
        /\ outcome.value.action_name = ActionName(task_input.update_fcn)
        /\ outcome.value.attempted = num_attempted
        /\ outcome.value.updated = num_updated
        /\ outcome.value.total = num_total

C3_Witness ==
    /\ pc = "done"
    /\ outcome.kind = "returned"
    /\ Row.task_state = SUCCESS
    /\ Row.task_output.doc.attempted = 3
    /\ Row.task_output.doc.updated = 2

Terminal == course_task_log.exists /\ Row.task_state \in {SUCCESS, FAILURE}

\* C7: every invocation that loads its task record ends with the record in one
\* of the terminal states SUCCESS and FAILURE; task_state is written once, on
\* the last step of the run, SUCCESS only when no exception occurred and
\* FAILURE only when one did, and is not changed afterwards.
C7_TerminalState ==
    /\ [](pc = "stamp" => <>(pc = "done" /\ Terminal))
    /\ [][Row.task_state' # Row.task_state
            => /\ Row.task_state = PENDING
               /\ Row.task_state' \in {SUCCESS, FAILURE}
               /\ pc' = "done"]_vars
    /\ [][Terminal => Row.task_state' = Row.task_state]_vars
    /\ [](Row.task_state = SUCCESS => exc = NoneRecord /\ ~SomeCallRaised)
    /\ [](Row.task_state = FAILURE => exc # NoneRecord)

C7_Witness ==
    /\ pc = "done"
    /\ Terminal
    /\ Row.task_state = FAILURE
    /\ Len(visited) = 3
    /\ task_input.update_fcn = "delete"

\* C8: the task record carries the task id, persisted, before the candidate
\* set is built and before update_fcn is invoked on any row.
C8_StampedBeforeWork ==
    (\/ pc \in {"perform", "loop", "except"}
     \/ Candidates # << >>
     \/ visited # << >>
     \/ progress_sink # << >>)
        => course_task_log.exists /\ Row.task_id = TaskId

C8_Witness ==
    /\ pc = "loop"
    /\ Len(visited) = 1
    /\ Row.task_id = TaskId
    /\ Row.task_state = PENDING

\* C9: a false result of update_fcn does not stop the iteration: the row is
\* counted in attempted and not in updated, and a run that ends in SUCCESS over
\* N candidate rows reports attempted = total = N and updated = the number of
\* rows for which update_fcn returned a true value.
C9_FalseResultCounts ==
    /\ (visited # << >> /\ visited[Len(visited)].outcome = "false") => pc \in {"loop", "done"}
    /\ pc = "loop" =>
          /\ num_attempted = Len(visited)
          /\ num_updated = Cardinality(TrueCalls)
          /\ Cardinality(FalseCalls) = num_attempted - num_updated
    /\ (pc = "done" /\ outcome.kind = "returned") =>
          /\ Len(visited) = Len(Candidates)
          /\ outcome.value.attempted = Len(Candidates)
          /\ outcome.value.total = Len(Candidates)
          /\ outcome.value.updated = Cardinality(TrueCalls)
          /\ Row.task_state = SUCCESS

C9_Witness ==
    /\ pc = "done"
    /\ outcome.kind = "returned"
    /\ Len(Candidates) = 3
    /\ visited[1].outcome = "false"
    /\ visited[2].outcome = "true"
    /\ visited[3].outcome = "false"
    /\ outcome.value.updated = 1

\* The row an update function leaves behind when it returns.
UpdatedRow(fcn, row) ==
    CASE fcn = "reset" -> IF "attempts" \in DOMAIN row.state
                          THEN [row EXCEPT !.state.attempts = 0]
                          ELSE row
      [] fcn = "delete" -> [row EXCEPT !.exists = FALSE]
      [] fcn = "rescore" -> row

\* C10: when update_fcn raises on the k-th row, what was done to rows 1..k-1
\* stays committed, rows k+1..N are as they were, and the FAILURE is recorded
\* on the task record.
C10_ConsistentPrefix ==
    \A k \in 1..Len(visited) : RaisedAt(k) =>
        /\ \A i \in 1..(k - 1) :
             student_modules[Candidates[i]]
                = UpdatedRow(task_input.update_fcn, initial_modules[Candidates[i]])
        /\ \A j \in (k + 1)..Len(Candidates) :
             student_modules[Candidates[j]] = initial_modules[Candidates[j]]
        /\ pc = "done" => FailureRecorded

C10_Witness ==
    /\ pc = "done"
    /\ FailureRecorded
    /\ Len(Candidates) = 3
    /\ RaisedAt(2)
    /\ student_modules[Candidates[1]] # initial_modules[Candidates[1]]
    /\ student_modules[Candidates[3]] = initial_modules[Candidates[3]]

(***************************************************************************)
(* Properties of the rubric parser.                                        *)
(***************************************************************************)

\* ---- the document, read without the parser ----
PointsAttrsOf(optionsxml) == [i \in 1..Len(optionsxml) |-> optionsxml[i].points]
HasScoreTag(children) == Len(children) >= 2 /\ children[2].tag = "score"
OptionsXml(children) ==
    SubSeq(children, (IF HasScoreTag(children) THEN 3 ELSE 2), Len(children))
Explicit(option) == Truthy(option.points)

\* The points of the i-th option of a category whose auto-numbered options
\* all come first.
DocPoints(optionsxml, i) ==
    IF Explicit(optionsxml[i]) THEN int(optionsxml[i].points) ELSE i - 1

\* A <category> with a description, an integer score if it has one, and
\* <option> children whose points, where given, are integers.
WellTagged(cat) ==
    /\ cat.tag = "category"
    /\ Len(cat.children) >= 2
    /\ cat.children[1].tag = "description"
    /\ HasScoreTag(cat.children) => IsInt(cat.children[2].text)
    /\ \A i \in 1..Len(OptionsXml(cat.children)) :
         /\ OptionsXml(cat.children)[i].tag = "option"
         /\ Explicit(OptionsXml(cat.children)[i]) => IsInt(OptionsXml(cat.children)[i].points)

AutoAfterExplicit(cat) ==
    \E i, j \in 1..Len(OptionsXml(cat.children)) :
        i < j /\ Explicit(OptionsXml(cat.children)[i]) /\ ~Explicit(OptionsXml(cat.children)[j])
ExplicitAfterAuto(cat) ==
    \E i, j \in 1..Len(OptionsXml(cat.children)) :
        i < j /\ ~Explicit(OptionsXml(cat.children)[i]) /\ Explicit(OptionsXml(cat.children)[j])
Duplicated(cat) ==
    \E i, j \in 1..Len(OptionsXml(cat.children)) :
        i < j /\ DocPoints(OptionsXml(cat.children), i) = DocPoints(OptionsXml(cat.children), j)
NoOptions(cat) == OptionsXml(cat.children) = << >>

\* No category without a score after one with a score.
ScoresConsistent(rubric) ==
    ~\E i, j \in 1..Len(rubric) :
        i < j /\ HasScoreTag(rubric[i].children) /\ ~HasScoreTag(rubric[j].children)

\* A document whose only possible defects are in the points of its options.
Structured(rubric) ==
    /\ \A c \in 1..Len(rubric) : WellTagged(rubric[c]) /\ ~NoOptions(rubric[c])
    /\ ScoresConsistent(rubric)

\* ---- the calls ----
Extracted == calls # << >> /\ calls[Len(calls)].method = "extract_categories"
FreshExtracted == Len(calls) = 1 /\ calls[1].method = "extract_categories"
Checked == Len(calls) = 1 /\ calls[1].method = "check_if_rubric_is_parseable"
Failed(error) == result.kind = "error" /\ result.error = error

Ascending(options) ==
    \A i \in 1..(Len(options) - 1) : options[i].points < options[i + 1].points

C5_ExplicitAfterAutoIsFatal ==
    (/\ FreshExtracted
     /\ Structured(rubric_xml)
     /\ \A c \in 1..Len(rubric_xml) :
          ~AutoAfterExplicit(rubric_xml[c]) /\ ~Duplicated(rubric_xml[c])
     /\ \E d \in 1..Len(rubric_xml) : ExplicitAfterAuto(rubric_xml[d]))
        => result.kind = "error" /\ result.error # RubricParsingError

\* C5 as the code has it: an option WITHOUT a points attribute after an option
\* with an explicit one is the fatal error, a plain Exception and not a
\* RubricParsingError (when nothing before it in the document fails); an
\* explicit points attribute after auto-numbered options is accepted, and the
\* category is extracted unless two of its points are equal.
C5_AutoAfterExplicitIsFatal ==
    /\ (/\ FreshExtracted
        /\ Structured(rubric_xml)
        /\ \E c \in 1..Len(rubric_xml) :
             /\ AutoAfterExplicit(rubric_xml[c])
             /\ \A b \in 1..(c - 1) :
                  ~AutoAfterExplicit(rubric_xml[b]) /\ ~Duplicated(rubric_xml[b]))
          => Failed("Exception")
    /\ (/\ FreshExtracted
        /\ Structured(rubric_xml)
        /\ \A c \in 1..Len(rubric_xml) :
             ~AutoAfterExplicit(rubric_xml[c]) /\ ~Duplicated(rubric_xml[c]))
          => result.kind = "ok"

C5_Witness ==
    /\ FreshExtracted
    /\ Len(rubric_xml) = 1
    /\ PointsAttrsOf(OptionsXml(rubric_xml[1].children)) = <<(<<"1">>), AttrNone>>
    /\ Failed("Exception")

\* C6: for a rubric that parses, check_if_rubric_is_parseable fails with
\* RubricParsingError when the sum over the categories of (number of options
\* - 1) differs from max_score, and when a category has more than
\* max_score_allowed + 1 options.
RECURSIVE Span(_)
Span(rubric) ==
    IF rubric = << >> THEN 0
    ELSE Len(OptionsXml(rubric[1].children)) - 1 + Span(Tail(rubric))

Parses(rubric) ==
    /\ rubric # << >>
    /\ Structured(rubric)
    /\ \A c \in 1..Len(rubric) : ~AutoAfterExplicit(rubric[c]) /\ ~Duplicated(rubric[c])

C6_RejectsMismatch ==
    (/\ Checked
     /\ calls[1].args.template_ok
     /\ Parses(rubric_xml)
     /\ \/ Span(rubric_xml) # calls[1].args.max_score
        \/ \E c \in 1..Len(rubric_xml) :
             Len(OptionsXml(rubric_xml[c].children)) > calls[1].args.max_score_allowed + 1)
        => Failed(RubricParsingError)

(***************************************************************************)
(* Further properties of the task layer.                                   *)
(***************************************************************************)

\* The task was given a student identifier that no user has.
Unresolvable ==
    /\ task_input.student_ident # None
    /\ \A u \in Users : task_input.student_ident \notin {u.username, u.email}

UserDoesNotExist == Exception("DoesNotExist", "User matching query does not exist.")

\* C11 as stated: when the student identifier matches no user, the task
\* record is not written to FAILURE.
C11_LookupNotRecorded ==
    Unresolvable => Row.task_state # FAILURE

\* C11 as the code has it: the lookup runs inside the try block, after the
\* task record is loaded and stamped; when the identifier matches no user the
\* run ends with FAILURE and the DoesNotExist error recorded on the task
\* record, the same error raised to the caller, no row visited and no row
\* changed.
C11_LookupFailureRecorded ==
    (Unresolvable /\ pc = "done" /\ course_task_log.exists) =>
        /\ Row.task_id = TaskId
        /\ Row.task_state = FAILURE
        /\ Row.task_output.kind = "json"
        /\ Row.task_output.doc.exception = UserDoesNotExist.type
        /\ Row.task_output.doc.message = UserDoesNotExist.message
        /\ Row.task_output.doc.traceback <= TracebackLimit
        /\ outcome = [kind |-> "raised", value |-> UserDoesNotExist]
        /\ visited = << >>
        /\ student_modules = initial_modules

C11_Witness ==
    /\ Unresolvable
    /\ pc = "done"
    /\ Row.task_state = FAILURE
    /\ outcome.kind = "raised"
    /\ outcome.value.type = "DoesNotExist"
    /\ visited = << >>

(***************************************************************************)
(* Further properties of the rubric parser.                                *)
(***************************************************************************)

\* C12: the categories of an extracted rubric all have a score or none has,
\* and a document in which a category with a <score> and a category without
\* one both occur is rejected, in whichever order they come.
C12_ScoreAllOrNone ==
    /\ (Extracted /\ result.kind = "ok") =>
          \/ \A c \in 1..Len(result.value) : result.value[c].score = << >>
          \/ \A c \in 1..Len(result.value) : result.value[c].score # << >>
    /\ (/\ Extracted
        /\ \E c \in 1..Len(rubric_xml) :
             rubric_xml[c].tag = "category" /\ HasScoreTag(rubric_xml[c].children)
        /\ \E d \in 1..Len(rubric_xml) :
             rubric_xml[d].tag = "category" /\ ~HasScoreTag(rubric_xml[d].children))
          => result.kind = "error"

Rendered == Len(calls) = 1 /\ calls[1].method = "render_rubric"

\* The first defect extract_categories meets in the document is an option
\* without points after an option with explicit points.
MissingPointsFirst(rubric) ==
    /\ Structured(rubric)
    /\ \E c \in 1..Len(rubric) :
         /\ AutoAfterExplicit(rubric[c])
         /\ \A b \in 1..(c - 1) : ~AutoAfterExplicit(rubric[b]) /\ ~Duplicated(rubric[b])

\* C13: the error extract_categories raises for an option without points
\* after an option with explicit points passes through render_rubric: the
\* caller of render_rubric gets an error that is not a RubricParsingError.
C13_FatalErrorEscapesRender ==
    (Rendered /\ MissingPointsFirst(rubric_xml)) =>
        result.kind = "error" /\ result.error # RubricParsingError

NoScoreTag(rubric) == \A c \in 1..Len(rubric) : ~HasScoreTag(rubric[c].children)

\* C14: after extract_categories on a fresh parser, for a document in which
\* no category has a <score>, has_score is still False, and in the extracted
\* categories every score is None and every option's selected is False.
C14_NoScoreNoSelection ==
    (FreshExtracted /\ NoScoreTag(rubric_xml)) =>
        /\ has_score = FALSE
        /\ result.kind = "ok" =>
             \A c \in 1..Len(result.value) :
                 /\ result.value[c].score = << >>
                 /\ \A i \in 1..Len(result.value[c].options) :
                      result.value[c].options[i].selected = FALSE

C14_Witness ==
    /\ FreshExtracted
    /\ NoScoreTag(rubric_xml)
    /\ result.kind = "ok"
    /\ Len(result.value) = 2
    /\ result.value[1].options[1].points = 0
    /\ result.value[1].options[1].selected = FALSE
    /\ result.value[2].score = << >>
    /\ has_score = FALSE

\* None of the options of the category carries a points attribute.
AllAuto(cat) ==
    \A i \in 1..Len(OptionsXml(cat.children)) : ~Explicit(OptionsXml(cat.children)[i])

\* C15: in an extracted category whose n options all come without a points
\* attribute, the options are those of the document in the document's order,
\* with points 0, 1, ..., n-1.
C15_AutoNumbering ==
    (Extracted /\ result.kind = "ok") =>
        \A c \in 1..Len(result.value) :
            AllAuto(rubric_xml[c]) =>
                /\ Len(result.value[c].options) = Len(OptionsXml(rubric_xml[c].children))
                /\ \A i \in 1..Len(result.value[c].options) :
                     /\ result.value[c].options[i].points = i - 1
                     /\ result.value[c].options[i].text
                            = OptionsXml(rubric_xml[c].children)[i].text

C15_Witness ==
    /\ FreshExtracted
    /\ result.kind = "ok"
    /\ Len(rubric_xml) = 1
    /\ AllAuto(rubric_xml[1])
    /\ Len(OptionsXml(rubric_xml[1].children)) = MaxOptions
    /\ result.value[1].options[1].points = 0
    /\ result.value[1].options[MaxOptions].points = MaxOptions - 1
    /\ result.value[1].options[1].text # result.value[1].options[MaxOptions].text

SelectedOptions(cat) == {i \in 1..Len(cat.options) : cat.options[i].selected}

\* C16: in every extracted category an option is selected exactly when the
\* category has a score and the option's points equal it; so at most one
\* option of a category is selected, and none when no option has the score's
\* points.
C16_SelectedIffScore ==
    (Extracted /\ result.kind = "ok") =>
        \A c \in 1..Len(result.value) :
            /\ \A i \in 1..Len(result.value[c].options) :
                 result.value[c].options[i].selected
                    <=> (/\ result.value[c].score # << >>
                         /\ result.value[c].options[i].points = result.value[c].score[1])
            /\ Cardinality(SelectedOptions(result.value[c])) <= 1
            /\ (\A i \in 1..Len(result.value[c].options) :
                    <<result.value[c].options[i].points>> # result.value[c].score)
                  => SelectedOptions(result.value[c]) = {}

C16_Witness ==
    /\ FreshExtracted
    /\ result.kind = "ok"
    /\ Len(result.value) = 1
    /\ result.value[1].score = <<1>>
    /\ Len(result.value[1].options) = 2
    /\ result.value[1].options[1].points = 0
    /\ result.value[1].options[1].selected = FALSE
    /\ result.value[1].options[2].points = 1
    /\ result.value[1].options[2].selected = TRUE

(***************************************************************************)
(* Properties of the update functions.                                     *)
(***************************************************************************)

\* The task_track() calls made for the row of primary key m.
EventsOf(m) == {i \in 1..Len(events) : events[i].student = Username(initial_modules[m].student_id)}

\* The stored attempt count of a row; 0 when the state has none.
Attempts(row) == IF "attempts" \in DOMAIN row.state THEN row.state.attempts ELSE 0

\* A database that accepts the write.
WorldOk == [instance |-> NoneRecord, db_ok |-> TRUE]

\* C17: a call of the reset function that returns, returns True; on a row
\* with more than 0 attempts it leaves the row saved with 0 attempts and one
\* problem_reset_attempts event with the old count and 0; on a row with 0
\* attempts it leaves the row as it was and no event.  A second call on the
\* row the first one left changes nothing and reports nothing.
C17_ResetAttempts ==
    task_input.update_fcn = "reset" =>
        /\ \A k \in 1..Len(visited) : visited[k].outcome # "raised" =>
             /\ visited[k].outcome = "true"
             /\ student_modules[visited[k].pk].state
                    = UpdatedRow("reset", initial_modules[visited[k].pk]).state
             /\ Attempts(student_modules[visited[k].pk]) = 0
             /\ IF Attempts(initial_modules[visited[k].pk]) > 0
                THEN /\ Cardinality(EventsOf(visited[k].pk)) = 1
                     /\ \A e \in EventsOf(visited[k].pk) :
                          /\ events[e].event_type = "problem_reset_attempts"
                          /\ events[e].event
                                = [old_attempts |-> Attempts(initial_modules[visited[k].pk]),
                                   new_attempts |-> 0]
                ELSE /\ EventsOf(visited[k].pk) = {}
                     /\ student_modules[visited[k].pk] = initial_modules[visited[k].pk]
        /\ \A m \in DOMAIN student_modules :
             reset_problem_attempts_module_state(
                 reset_problem_attempts_module_state(student_modules, events, m, WorldOk).modules,
                 reset_problem_attempts_module_state(student_modules, events, m, WorldOk).events,
                 m, WorldOk)
               = reset_problem_attempts_module_state(student_modules, events, m, WorldOk)

C17_Witness ==
    /\ task_input.update_fcn = "reset"
    /\ pc = "done"
    /\ Len(visited) = 2
    /\ visited[1].outcome = "true"
    /\ visited[2].outcome = "true"
    /\ Attempts(initial_modules[visited[1].pk]) = MaxAttempts
    /\ Attempts(student_modules[visited[1].pk]) = 0
    /\ Attempts(initial_modules[visited[2].pk]) = 0
    /\ Len(events) = 1
    /\ events[1].event = [old_attempts |-> MaxAttempts, new_attempts |-> 0]

\* What the k-th call of the rescore function was handed.
Instantiated(k) == visited[k].world.instance # NoneRecord
SupportsRescoring(k) == Instantiated(k) /\ visited[k].world.instance.rescore_problem
Recognized(k) ==
    /\ SupportsRescoring(k)
    /\ "success" \in DOMAIN visited[k].world.instance.result
    /\ visited[k].world.instance.result.success \in {"correct", "incorrect"}

\* C18: a call of the rescore function raises, and the run stops there, when
\* the module cannot be instantiated or has no rescore_problem; otherwise it
\* returns True exactly when the result's success is "correct" or
\* "incorrect", and returns False, the run going on, when success is missing
\* or anything else.
C18_RescoreResult ==
    task_input.update_fcn = "rescore" =>
        \A k \in 1..Len(visited) :
            /\ visited[k].outcome = "raised" <=> ~SupportsRescoring(k)
            /\ visited[k].outcome = "true" <=> Recognized(k)
            /\ visited[k].outcome = "false" <=> (SupportsRescoring(k) /\ ~Recognized(k))
            /\ visited[k].outcome = "raised" =>
                 /\ k = Len(visited)
                 /\ pc \in {"except", "done"}
                 /\ exc.type = "UpdateProblemModuleStateError"
            /\ visited[k].outcome # "raised" =>
                 /\ student_modules[visited[k].pk] = initial_modules[visited[k].pk]
                 /\ k = Len(visited) => pc \in {"loop", "done"} /\ exc = NoneRecord
                 /\ (k = Len(visited) /\ pc = "done") =>
                        k = Len(Candidates) /\ Row.task_state = SUCCESS

C18_Witness ==
    /\ task_input.update_fcn = "rescore"
    /\ pc = "done"
    /\ Row.task_state = SUCCESS
    /\ Len(visited) = 3
    /\ visited[1].world.instance = [kind |-> "module", rescore_problem |-> TRUE,
                                    result |-> [msg |-> "unexpected"]]
    /\ visited[1].outcome = "false"
    /\ visited[2].world.instance = [kind |-> "module", rescore_problem |-> TRUE,
                                    result |-> [success |-> "error"]]
    /\ visited[2].outcome = "false"
    /\ visited[3].world.instance = [kind |-> "module", rescore_problem |-> TRUE,
                                    result |-> [success |-> "incorrect"]]
    /\ visited[3].outcome = "true"

\* The rows of the candidate set, as a set of primary keys.
CandidateSet == {Candidates[i] : i \in 1..Len(Candidates)}

\* C19: a call of the delete function that returns has deleted the row and
\* returned True; a delete run that ends in SUCCESS reports updated =
\* attempted = total, the size of the candidate set, leaves none of its rows
\* in the store, and leaves every other row as it was.
C19_DeleteState ==
    task_input.update_fcn = "delete" =>
        /\ \A k \in 1..Len(visited) : visited[k].outcome # "raised" =>
             /\ visited[k].outcome = "true"
             /\ ~student_modules[visited[k].pk].exists
             /\ Cardinality(EventsOf(visited[k].pk)) = 1
             /\ \A e \in EventsOf(visited[k].pk) :
                  events[e].event_type = "problem_delete_state"
        /\ (pc = "done" /\ Row.task_state = SUCCESS) =>
             /\ outcome.value.total = Len(Candidates)
             /\ outcome.value.attempted = outcome.value.total
             /\ outcome.value.updated = outcome.value.total
             /\ \A m \in CandidateSet : ~student_modules[m].exists
             /\ ModulesQuery(student_modules, "delete", NoneRecord) = {}
             /\ \A m \in DOMAIN student_modules \ CandidateSet :
                  student_modules[m] = initial_modules[m]

C19_Witness ==
    /\ task_input.update_fcn = "delete"
    /\ pc = "done"
    /\ Row.task_state = SUCCESS
    /\ Len(Candidates) = 2
    /\ outcome.value.updated = 2
    /\ \E m \in CandidateSet : initial_modules[m].state = [done |-> FALSE, attempts |-> 0]
    /\ \A m \in CandidateSet : initial_modules[m].exists /\ ~student_modules[m].exists
    /\ \E m \in DOMAIN student_modules : student_modules[m].exists

\* The serialized state of the row says the problem is done.
MarkedDone(row) == "done" \in DOMAIN row.state /\ row.state.done

\* The rows of the problem the task runs on.
ProblemRows ==
    {m \in DOMAIN initial_modules :
        /\ initial_modules[m].course_id = CourseId
        /\ initial_modules[m].module_state_key = ProblemUrl}

\* C20: in a rescore task every row of the candidate set is marked done, the
\* rescore function is called on such rows only, and total counts such rows
\* only: all of the problem's done rows when no student is named.
C20_RescoreOnlyDone ==
    task_input.update_fcn = "rescore" =>
        /\ \A m \in CandidateSet : m \in ProblemRows /\ MarkedDone(initial_modules[m])
        /\ \A k \in 1..Len(visited) :
             visited[k].pk \in CandidateSet /\ MarkedDone(initial_modules[visited[k].pk])
        /\ pc \in {"loop", "done"} /\ visited # << >> => num_total = Cardinality(CandidateSet)
        /\ (outcome # NoneRecord /\ outcome.kind = "returned") =>
             /\ outcome.value.total = Cardinality(CandidateSet)
             /\ task_input.student_ident = None =>
                  CandidateSet = {m \in ProblemRows : MarkedDone(initial_modules[m])}

C20_Witness ==
    /\ task_input.update_fcn = "rescore"
    /\ task_input.student_ident = None
    /\ pc = "done"
    /\ outcome.kind = "returned"
    /\ outcome.value.total = 1
    /\ Len(visited) = 1
    /\ Cardinality(ProblemRows) = 3
    /\ \E m \in ProblemRows : ~MarkedDone(initial_modules[m])

(***************************************************************************)
(* Properties of the extracted points and of the parser's checks.          *)
(***************************************************************************)

\* C21: every option of every extracted category has points that are an
\* integer not below 0.
C21_PointsNotNegative ==
    (Extracted /\ result.kind = "ok") =>
        \A c \in 1..Len(result.value) :
            \A i \in 1..Len(result.value[c].options) :
                /\ result.value[c].options[i].points \in Int
                /\ result.value[c].options[i].points >= 0

\* The categories before the c-th are extracted without an error.
PrefixExtracts(rubric, c) ==
    /\ Structured(SubSeq(rubric, 1, c - 1))
    /\ \A b \in 1..(c - 1) : ~AutoAfterExplicit(rubric[b]) /\ ~Duplicated(rubric[b])

\* A category of a description alone, or of a description and a score alone.
DescriptionOnly(cat) == cat.tag = "category" /\ cat.children = <<Description>>
DescriptionAndScoreOnly(cat) ==
    /\ cat.tag = "category"
    /\ Len(cat.children) = 2
    /\ cat.children[1] = Description
    /\ cat.children[2].tag = "score"
    /\ IsInt(cat.children[2].text)

\* C22: a category without options makes extract_categories raise
\* RubricParsingError, when it is a description alone and when it is a
\* description and a score alone.
C22_NoOptionsIsParsingError ==
    FreshExtracted =>
        \A c \in 1..Len(rubric_xml) :
            (/\ PrefixExtracts(rubric_xml, c)
             /\ DescriptionOnly(rubric_xml[c]) \/ DescriptionAndScoreOnly(rubric_xml[c]))
                => Failed(RubricParsingError)

(***************************************************************************)
(* Properties of the progress reports and of the rows left alone.          *)
(***************************************************************************)

\* The i-th progress report handed to current_task.update_state.
Snapshot(i) == progress_sink[i].meta

\* C23: every progress report has 0 <= updated <= attempted <= total, with
\* the same total throughout; the first has attempted = 0, and each later one
\* has attempted one more than the one before and updated more by 0 or 1.
C23_ProgressSnapshots ==
    \A i \in 1..Len(progress_sink) :
        /\ progress_sink[i].state = PROGRESS
        /\ Snapshot(i).total = num_total
        /\ Snapshot(i).total = Len(Candidates)
        /\ 0 <= Snapshot(i).updated
        /\ Snapshot(i).updated <= Snapshot(i).attempted
        /\ Snapshot(i).attempted <= Snapshot(i).total
        /\ i = 1 => Snapshot(i).attempted = 0 /\ Snapshot(i).updated = 0
        /\ i > 1 =>
             /\ Snapshot(i).attempted = Snapshot(i - 1).attempted + 1
             /\ Snapshot(i).updated - Snapshot(i - 1).updated \in {0, 1}

C23_Witness ==
    /\ pc = "done"
    /\ Len(progress_sink) = 4
    /\ Snapshot(1).attempted = 0
    /\ Snapshot(2).updated = 0
    /\ Snapshot(3).updated = 1
    /\ Snapshot(4).updated = 1
    /\ Snapshot(4).attempted = 3
    /\ Snapshot(4).total = 3

\* C24: for a rubric that parses, whose categories have at most
\* max_score_allowed + 1 options each and whose sum of (number of options - 1)
\* is max_score, check_if_rubric_is_parseable returns without raising.
C24_AcceptsMatching ==
    (/\ Checked
     /\ calls[1].args.template_ok
     /\ Parses(rubric_xml)
     /\ Span(rubric_xml) = calls[1].args.max_score
     /\ \A c \in 1..Len(rubric_xml) :
          Len(OptionsXml(rubric_xml[c].children)) <= calls[1].args.max_score_allowed + 1)
        => result.kind = "ok"

\* What a call gave its caller: the value returned or the error raised.
Outcome(r) == [kind |-> r.kind, value |-> r.value, error |-> r.error]

\* The step is a second extract_categories on the parser that has made one.
SecondExtract == FreshExtracted /\ Len(calls') = 2

\* C25: a second extract_categories on the same parser with the same document
\* gives what the first gave: the same categories or the same error.
C25_SameOutcomeTwice ==
    [][SecondExtract => Outcome(result') = Outcome(result)]_vars

\* The ids of the users the task's student identifier names.
NamedStudents ==
    {u.id : u \in {v \in Users : task_input.student_ident \in {v.username, v.email}}}

\* The row is of another course, of another problem, of another student than
\* the one named, or kept out by the task's filter.
Excluded(m) ==
    \/ initial_modules[m].course_id # CourseId
    \/ initial_modules[m].module_state_key # ProblemUrl
    \/ task_input.student_ident # None /\ initial_modules[m].student_id \notin NamedStudents
    \/ task_input.update_fcn = "rescore" /\ ~MarkedDone(initial_modules[m])

\* C26: update_fcn is called on rows of the candidate set only, on each at
\* most once; the rows of another course, another problem, another student
\* or kept out by the filter are never visited and stay as they were, and no
\* event is sent for them.
C26_OnlyCandidatesTouched ==
    /\ \A k \in 1..Len(visited) :
         /\ visited[k].pk \in CandidateSet
         /\ ~Excluded(visited[k].pk)
         /\ \A j \in 1..Len(visited) : visited[j].pk = visited[k].pk => j = k
    /\ \A m \in DOMAIN student_modules :
         (Excluded(m) \/ (pc \in {"loop", "done"} /\ m \notin CandidateSet)) =>
             /\ student_modules[m] = initial_modules[m]
             /\ m \notin CandidateSet
             /\ EventsOf(m) = {}

C26_Witness ==
    /\ task_input.update_fcn = "reset"
    /\ pc = "done"
    /\ Row.task_state = SUCCESS
    /\ Len(visited) = 1
    /\ student_modules[visited[1].pk] # initial_modules[visited[1].pk]
    /\ \E m, n \in DOMAIN student_modules :
         /\ Excluded(m) /\ Excluded(n)
         /\ initial_modules[m].course_id # CourseId
         /\ initial_modules[n].module_state_key # ProblemUrl
         /\ Attempts(student_modules[m]) > 0
         /\ Attempts(student_modules[n]) > 0

====
